---------------------------- MODULE Spec2Model ----------------------------
(***************************************************************************)
(* A model of lib/config_lib.py: the GRR configuration manager             *)
(* (GrrConfigManager), its string interpolation language                   *)
(* (StringInterpolator) and the loader.                                    *)
(*                                                                         *)
(* Python strings are sequences of one-character strings, so that          *)
(* escaping, lexing and splitting are computed and not assumed.  Python    *)
(* values are tagged records (Str, Num, None); the outcome of a call is a  *)
(* record [err, val] whose err names the exception raised ("" for none).   *)
(***************************************************************************)
EXTENDS Integers, Sequences, FiniteSets

VARIABLES
  raw_data,      \* GrrConfigManager.raw_data: section -> key -> raw string
  environment,   \* GrrConfigManager.environment: [flat, nested]
  defaults,      \* GrrConfigManager.defaults: section -> key -> value
  type_infos,    \* GrrConfigManager.type_infos: name -> descriptor
  raw_noenv,     \* raw_data of the same run of calls made with no environment
  loaded,        \* the sources merged since the last reset, in load order
  parser,        \* GrrConfigManager.parser: the parser of the primary source
  input,         \* the string (or source) handed to the call under study
  last,          \* the last call: its name, arguments and outcome
  steps          \* number of state-changing calls made so far

vars == <<raw_data, environment, defaults, type_infos, raw_noenv, loaded,
          parser, input, last, steps>>

-----------------------------------------------------------------------------
(* Bounds of the model *)

\* longest enumerated input string
MaxLen == 3

\* number of state-changing calls in one run of the manager
MaxOps == 3

\* number of sources merged in one run of the loader
MaxLoads == 3

\* number of entries of a configuration in the inheritance runs
MaxEntries == 3

\* depth of nested Get/_GetValue/_FindTypeInfo calls before the
\* interpreter's recursion limit is hit
MaxDepth == 6

\* calls made on the manager in a run of the loader
MaxBoots == 2

-----------------------------------------------------------------------------
(* Characters and strings *)

LowerCase == <<"a","b","c","d","e","f","g","h","i","j","k","l","m",
               "n","o","p","q","r","s","t","u","v","w","x","y","z">>

UpperCase == <<"A","B","C","D","E","F","G","H","I","J","K","L","M",
               "N","O","P","Q","R","S","T","U","V","W","X","Y","Z">>

Range(f) == {f[i] : i \in DOMAIN f}

IsLower(c) == c \in Range(LowerCase)

IsUpper(c) == c \in Range(UpperCase)

\* the class [a-zA-Z]
IsAlpha(c) == IsLower(c) \/ IsUpper(c)

IndexIn(c, tbl) == CHOOSE i \in DOMAIN tbl : tbl[i] = c

\* str.lower() on one character
LowerChar(c) == IF IsUpper(c) THEN LowerCase[IndexIn(c, UpperCase)] ELSE c

\* str.upper() on one character
UpperChar(c) == IF IsLower(c) THEN UpperCase[IndexIn(c, LowerCase)] ELSE c

StrLower(s) == [i \in 1..Len(s) |-> LowerChar(s[i])]

StrUpper(s) == [i \in 1..Len(s) |-> UpperChar(s[i])]

\* s[n:] of Python, n counted from 0
Drop(s, n) == IF n >= Len(s) THEN <<>> ELSE SubSeq(s, n + 1, Len(s))

\* s[:n] of Python
Take(s, n) == IF n >= Len(s) THEN s ELSE SubSeq(s, 1, n)

StartsWith(s, p) == Len(s) >= Len(p) /\ Take(s, Len(p)) = p

EndsWith(s, p) == Len(s) >= Len(p) /\ Drop(s, Len(s) - Len(p)) = p

Contains(s, c) == \E i \in 1..Len(s) : s[i] = c

\* index of the first occurrence of c in s (s contains c)
FirstIndex(s, c) == CHOOSE i \in 1..Len(s) : s[i] = c /\ \A j \in 1..(i-1) : s[j] # c

\* all strings over alphabet A of length at most n
RECURSIVE StringsUpTo(_, _)
StringsUpTo(A, n) ==
  IF n = 0 THEN {<<>>}
  ELSE LET shorter == StringsUpTo(A, n - 1)
       IN shorter \cup {Append(s, c) : s \in shorter, c \in A}

\* names used as sections, keys and values
sA == <<"A">>
sB == <<"B">>
sC == <<"C">>
sS == <<"S">>
sT == <<"T">>
sK == <<"k">>
sV == <<"v">>
sW == <<"w">>
sNone == <<"N","o","n","e">>
sEnvironment == <<"E","n","v","i","r","o","n","m","e","n","t">>
sInherit == <<"@","i","n","h","e","r","i","t","_","f","r","o","m","_",
              "s","e","c","t","i","o","n">>
sDEKInfo == <<"D","E","K","-","I","n","f","o",":">>

\* "%s.%s" % (section, key)
Dotted(section, key) == section \o <<".">> \o key

-----------------------------------------------------------------------------
(* Python values and call outcomes *)

Str(s) == [t |-> "str", s |-> s, n |-> 0]

Num(n) == [t |-> "int", s |-> <<>>, n |-> n]

None == [t |-> "none", s |-> <<>>, n |-> 0]

IsStr(v) == v.t = "str"

Ok(v) == [err |-> "", val |-> v]

Err(kind) == [err |-> kind, val |-> None]

EmptyMap == [x \in {} |-> None]

Put(m, k, v) == [x \in (DOMAIN m) \cup {k} |-> IF x = k THEN v ELSE m[x]]

Remove(m, k) == [x \in (DOMAIN m) \ {k} |-> m[x]]

\* d.get(section, {}).get(key) on a two-level dict of values
Get2(d, section, key) ==
  IF section \in DOMAIN d /\ key \in DOMAIN d[section]
  THEN d[section][key] ELSE None

\* d.setdefault(section, {})[key] = v
Put2(d, section, key, v) ==
  Put(d, section, Put(IF section \in DOMAIN d THEN d[section] ELSE EmptyMap,
                      key, v))

-----------------------------------------------------------------------------
(* grr.lib.type_info: the descriptors the manager relies on.  A descriptor *)
(* is [type, default]; the catalog modelled here is String and Integer.    *)

Digits == <<"0","1","2","3","4","5","6","7","8","9">>

IsDigit(c) == c \in Range(Digits)

\* str(n) for a natural number
RECURSIVE DecStr(_)
DecStr(n) ==
  IF n < 10 THEN <<Digits[n + 1]>>
  ELSE DecStr(n \div 10) \o <<Digits[(n % 10) + 1]>>

\* long(s) for a string of decimal digits
RECURSIVE DecVal(_)
DecVal(s) ==
  IF s = <<>> THEN 0
  ELSE 10 * DecVal(Take(s, Len(s) - 1)) + (IndexIn(s[Len(s)], Digits) - 1)

\* utils.SmartStr(value) / str(value)
SmartStr(v) ==
  CASE v.t = "str" -> v.s
    [] v.t = "int" -> DecStr(v.n)
    [] OTHER -> sNone

\* type_info.String(name=..., default="")
StringType == [type |-> "String", default |-> Str(<<>>)]

\* TypeInfoObject.ToString
ToString(ti, v) == SmartStr(v)

\* TypeInfoObject.FromString: String returns the string, Integer parses it
FromString(ti, s) ==
  IF ti.type = "Integer"
  THEN IF s # <<>> /\ \A i \in 1..Len(s) : IsDigit(s[i])
       THEN Ok(Num(DecVal(s))) ELSE Err("TypeValueError")
  ELSE Ok(Str(s))

\* TypeInfoObject.Validate
Validate(ti, v) ==
  IF ti.type = "Integer"
  THEN IF v.t = "int" THEN Ok(v) ELSE Err("TypeValueError")
  ELSE IF v.t = "str" THEN Ok(v) ELSE Err("TypeValueError")

\* TypeInfoObject.GetDefault
GetDefault(ti) == ti.default

-----------------------------------------------------------------------------
(* GrrConfigManager: the lookups.  cfg is the manager's state              *)
(* [raw_data, environment, defaults, type_infos]; fuel is the number of    *)
(* nested calls left before the interpreter's recursion limit.             *)

Config(raw, env, dflt, tis) ==
  [raw_data |-> raw, environment |-> env, defaults |-> dflt, type_infos |-> tis]

\* self.environment is one dict with two kinds of keys: full names
\* "Section.key" (flat, set by SetEnv(key, value)) and section names whose
\* value is a dict (nested, set by SetEnv(**env)); a section name holds no "."
EmptyEnv == [flat |-> EmptyMap, nested |-> EmptyMap]

\* the result of a lookup that found no descriptor
NoType == [type |-> "none", default |-> None]

\* name.split(".", 1): the section
SectionOf(name) == Take(name, FirstIndex(name, ".") - 1)

\* name.split(".", 1): the key
KeyOf(name) == Drop(name, FirstIndex(name, "."))

\* _GetSectionName raises RuntimeError("Section not specified") without a "."
HasSection(name) == Contains(name, ".")

\* self.raw_data.get(section_name, {}).get(key)
RawGet(cfg, section, key) ==
  IF section \in DOMAIN cfg.raw_data /\ key \in DOMAIN cfg.raw_data[section]
  THEN Str(cfg.raw_data[section][key]) ELSE None

\* the lookup of a manager that would not fall back to the defaults
OwnValueNoDefaults(cfg, section, key) ==
  IF RawGet(cfg, section, key) = None
  THEN Get2(cfg.environment.nested, section, key)
  ELSE RawGet(cfg, section, key)

\* the three layers of _GetValue, in the order the code tries them
OwnValue(cfg, section, key) ==
  LET v1 == RawGet(cfg, section, key)
      v2 == IF v1 = None THEN Get2(cfg.environment.nested, section, key) ELSE v1
  IN  IF v2 = None THEN Get2(cfg.defaults, section, key) ELSE v2

\* an inheritance that would stop at the section inherited from
InheritedOneLevel(cfg, inherited_from, key, fuel) ==
  IF inherited_from.err # "" THEN inherited_from
  ELSE IF inherited_from.val # None /\ IsStr(inherited_from.val)
  THEN Ok(OwnValue(cfg, inherited_from.val.s, key))
  ELSE Ok(None)

RECURSIVE _GetValue(_, _, _, _)
RECURSIVE Inherited(_, _, _, _)

\* _GetValue(section_name, key)
_GetValue(cfg, section_name, key, fuel) ==
  IF fuel = 0 THEN Err("RecursionLimit")
  ELSE IF OwnValue(cfg, section_name, key) = None /\ ~StartsWith(key, <<"@">>)
  THEN Inherited(cfg, _GetValue(cfg, section_name, sInherit, fuel - 1), key, fuel)
  ELSE Ok(OwnValue(cfg, section_name, key))

\* the "Maybe its inherited?" branch of _GetValue, inherited_from being the
\* outcome of the lookup of the section's @inherit_from_section
Inherited(cfg, inherited_from, key, fuel) ==
  IF inherited_from.err # "" THEN inherited_from
  ELSE IF inherited_from.val # None
  THEN IF IsStr(inherited_from.val)
       THEN _GetValue(cfg, inherited_from.val.s, key, fuel - 1)
       ELSE Ok(None)
  ELSE Ok(None)

\* Python truth of a value
Truthy(v) == (v.t = "str" /\ v.s # <<>>) \/ (v.t = "int" /\ v.n # 0)

\* self.type_infos.get(name)
TypeInfoGet(cfg, name) ==
  IF name \in DOMAIN cfg.type_infos THEN cfg.type_infos[name] ELSE NoType

\* self.raw_data.get(section_name) or self.defaults.get(section_name),
\* then section.get("@inherit_from_section")
SectionPointer(cfg, section_name) ==
  IF section_name \in DOMAIN cfg.raw_data /\ DOMAIN cfg.raw_data[section_name] # {}
  THEN RawGet(cfg, section_name, sInherit)
  ELSE Get2(cfg.defaults, section_name, sInherit)

SectionKnown(cfg, section_name) ==
  \/ section_name \in DOMAIN cfg.raw_data /\ DOMAIN cfg.raw_data[section_name] # {}
  \/ section_name \in DOMAIN cfg.defaults

RECURSIVE _FindTypeInfo(_, _, _, _)
_FindTypeInfo(cfg, section_name, key, fuel) ==
  IF fuel = 0 THEN [err |-> "RecursionLimit", ti |-> NoType]
  ELSE IF Contains(key, ".")
  THEN _FindTypeInfo(cfg, SectionOf(key), KeyOf(key), fuel - 1)
  ELSE IF ~SectionKnown(cfg, section_name) THEN [err |-> "", ti |-> NoType]
  ELSE IF TypeInfoGet(cfg, Dotted(section_name, key)) = NoType
          /\ Truthy(SectionPointer(cfg, section_name))
  THEN IF IsStr(SectionPointer(cfg, section_name))
       THEN _FindTypeInfo(cfg, SectionPointer(cfg, section_name).s, key, fuel - 1)
       ELSE [err |-> "", ti |-> NoType]
  ELSE [err |-> "", ti |-> TypeInfoGet(cfg, Dotted(section_name, key))]

\* FindTypeInfo(parameter_name): None when the name has no "."
FindTypeInfo(cfg, parameter_name, fuel) ==
  IF HasSection(parameter_name)
  THEN _FindTypeInfo(cfg, SectionOf(parameter_name), KeyOf(parameter_name), fuel)
  ELSE [err |-> "", ti |-> NoType]

\* str.splitlines(): lines end at \n, \r or \r\n; no empty last line
RECURSIVE SplitLines(_)
SplitLines(s) ==
  IF s = <<>> THEN <<>>
  ELSE LET brk == {i \in 1..Len(s) : s[i] \in {"\n", "\r"}}
       IN  IF brk = {} THEN <<s>>
           ELSE LET i == CHOOSE x \in brk : \A y \in brk : x <= y
                    skip == IF s[i] = "\r" /\ i < Len(s) /\ s[i + 1] = "\n"
                            THEN i + 1 ELSE i
                IN  <<Take(s, i - 1)>> \o SplitLines(Drop(s, skip))

\* the result_lines of NewlineFixup: a blank line after each DEK-Info: line
RECURSIVE FixLines(_)
FixLines(lines) ==
  IF lines = <<>> THEN <<>>
  ELSE (IF StartsWith(Head(lines), sDEKInfo) THEN <<Head(lines), <<>>>>
        ELSE <<Head(lines)>>) \o FixLines(Tail(lines))

\* "\n".join(lines)
RECURSIVE JoinLines(_)
JoinLines(lines) ==
  IF lines = <<>> THEN <<>>
  ELSE IF Len(lines) = 1 THEN Head(lines)
  ELSE Head(lines) \o <<"\n">> \o JoinLines(Tail(lines))

NewlineFixup(input_data) ==
  IF ~IsStr(input_data) THEN input_data
  ELSE Str(JoinLines(FixLines(SplitLines(input_data.s))))

RECURSIVE EscapeAllButParen(_)

\* an escaping that would leave the closing parenthesis alone
EscapeAllButParen(string) ==
  IF string = <<>> THEN <<>>
  ELSE (IF Head(string) \in {"\\", "%", "{", "}"} THEN <<"\\", Head(string)>>
        ELSE <<Head(string)>>) \o EscapeAllButParen(Tail(string))

\* the character class [\\%){}] of EscapeString
EscapedChars == {"\\", "%", ")", "{", "}"}

\* re.sub(r"([\\%){}])", r"\\\1", string)
RECURSIVE EscapeString(_)
EscapeString(string) ==
  IF string = <<>> THEN <<>>
  ELSE (IF Head(string) \in EscapedChars THEN <<"\\", Head(string)>>
        ELSE <<Head(string)>>) \o EscapeString(Tail(string))

-----------------------------------------------------------------------------
(* ConfigFilter: the filter registry (classes_by_name)                     *)

fIdentity == <<"i","d","e","n","t","i","t","y">>
fLiteral == <<"l","i","t","e","r","a","l">>
fLower == <<"l","o","w","e","r">>
fUpper == <<"u","p","p","e","r">>
fFile == <<"f","i","l","e">>
fBase64 == <<"b","a","s","e","6","4">>
fEnv == <<"e","n","v">>
fExpand == <<"e","x","p","a","n","d">>
fFlags == <<"f","l","a","g","s">>

FilterNames ==
  {fIdentity, fLiteral, fLower, fUpper, fFile, fBase64, fEnv, fExpand, fFlags}

\* os.environ, the files open() can read and flags.FLAGS: none is set
OsEnviron == EmptyMap

-----------------------------------------------------------------------------
(* lexer.Lexer and StringInterpolator                                      *)

\* the characters the "glob" token [^()%{}|\\]+ stops at
GlobStop == {"(", ")", "%", "{", "}", "|", "\\"}

\* length of the longest prefix of s with no character of stop
RunLen(s, stop) ==
  LET bad == {i \in 1..Len(s) : s[i] \in stop}
  IN  IF bad = {} THEN Len(s) ELSE (CHOOSE x \in bad : \A y \in bad : x <= y) - 1

\* length of the longest prefix of s made of letters
AlphaLen(s) ==
  LET bad == {i \in 1..Len(s) : ~IsAlpha(s[i])}
  IN  IF bad = {} THEN Len(s) ELSE (CHOOSE x \in bad : \A y \in bad : x <= y) - 1

\* the match of \|([a-zA-Z]+)\) at the start of b: its length, 0 for none
FilterMatchLen(b) ==
  IF Len(b) >= 3 /\ b[1] = "|"
  THEN LET n == AlphaLen(Drop(b, 1))
       IN  IF n >= 1 /\ Len(b) >= n + 2 /\ b[n + 2] = ")" THEN n + 2 ELSE 0
  ELSE 0

\* StringInterpolator.tokens: the first token of the table that applies in
\* the state and matches the start of the buffer b (b is not empty)
TokenAt(state, b) ==
  LET literal == state = "Literal"
  IN  IF literal /\ Len(b) >= 2 /\ b[1] = "\\" /\ b[2] # "}"
      THEN [action |-> "AppendArg", len |-> 2]
      ELSE IF Len(b) >= 2 /\ b[1] = "\\"
      THEN [action |-> "Escape", len |-> 2]
      ELSE IF literal /\ b[1] = "}"
      THEN [action |-> "EndLiteralExpression,PopState", len |-> 1]
      ELSE IF literal /\ RunLen(b, {"}"}) >= 1
      THEN [action |-> "AppendArg", len |-> RunLen(b, {"}"})]
      ELSE IF Len(b) >= 2 /\ b[1] = "%" /\ b[2] = "{"
      THEN [action |-> "StartExpression,PushState", len |-> 2]
      ELSE IF Len(b) >= 2 /\ b[1] = "%" /\ b[2] = "("
      THEN [action |-> "StartExpression", len |-> 2]
      ELSE IF FilterMatchLen(b) > 0
      THEN [action |-> "Filter", len |-> FilterMatchLen(b)]
      ELSE IF b[1] = ")"
      THEN [action |-> "ExpandArg", len |-> 1]
      ELSE IF RunLen(b, GlobStop) >= 1
      THEN [action |-> "AppendArg", len |-> RunLen(b, GlobStop)]
      ELSE [action |-> "AppendArg", len |-> 1]

\* STRING_ESCAPES.get(string, string[1:]) for a two-character match
EscapeOf(string) ==
  IF string[1] = "\\" /\ string[2] = "\\" THEN <<"\\">>
  ELSE IF string[1] = "\\" /\ string[2] = "n" THEN <<"\n">>
  ELSE IF string[1] = "\\" /\ string[2] = "t" THEN <<"\t">>
  ELSE IF string[1] = "\\" /\ string[2] = "r" THEN <<"\r">>
  ELSE Drop(string, 1)

\* self.stack[-1] += string
AppendArg(stack, string) == [stack EXCEPT ![Len(stack)] = @ \o string]

\* self.stack.pop(-1): what is left
Pop(stack) == Take(stack, Len(stack) - 1)

\* self.stack.pop(-1): what is popped
Top(stack) == stack[Len(stack)]

RECURSIVE Get(_, _, _, _, _)
RECURSIVE Lex(_, _, _, _, _, _, _)

\* StringInterpolator(data, config, default_section).Parse()
Parse(cfg, data, default_section, fuel) ==
  Lex(cfg, default_section, data, "INITIAL", <<>>, <<<<>>>>, fuel)

\* value = type_info_obj.FromString(value), parsed being the outcome of Parse
Decode(type_info_obj, parsed) ==
  IF parsed.err # "" THEN parsed ELSE FromString(type_info_obj, parsed.val.s)

\* InterpolateValue(value, type_info_obj, default_section)
InterpolateValue(cfg, value, type_info_obj, default_section, fuel) ==
  IF IsStr(value)
  THEN Decode(type_info_obj, Parse(cfg, value.s, default_section, fuel))
  ELSE Ok(value)

\* filters that would hand their argument back unchanged
ApplyNoFilter(cfg, filter_name, data, fuel) == Ok(Str(data))

\* ConfigFilter.Filter of the filter registered under filter_name
ApplyFilter(cfg, filter_name, data, fuel) ==
  IF filter_name = fLower THEN Ok(Str(StrLower(data)))
  ELSE IF filter_name = fUpper THEN Ok(Str(StrUpper(data)))
  ELSE IF filter_name = fFile THEN Err("FilterError")
  ELSE IF filter_name = fEnv
  THEN Ok(Str(IF StrUpper(data) \in DOMAIN OsEnviron
              THEN OsEnviron[StrUpper(data)] ELSE <<>>))
  ELSE IF filter_name = fFlags THEN Err("AttributeError")
  ELSE IF filter_name = fExpand
  THEN IF fuel = 0 THEN Err("RecursionLimit")
       ELSE InterpolateValue(cfg, Str(data), StringType, sNone, fuel - 1)
  ELSE Ok(Str(data))

\* self.stack[-1] += arg at the end of Filter, arg being the filtered text
Filtered(stack, arg) ==
  IF arg.err # "" THEN [err |-> arg.err, stack |-> Pop(stack)]
  ELSE IF Len(stack) <= 1 THEN [err |-> "IndexError", stack |-> Pop(stack)]
  ELSE [err |-> "", stack |-> AppendArg(Pop(stack), arg.val.s)]

RECURSIVE SplitOn(_, _)

\* string.split(c)
SplitOn(string, c) ==
  IF ~Contains(string, c) THEN <<string>>
  ELSE <<Take(string, FirstIndex(string, c) - 1)>>
       \o SplitOn(Drop(string, FirstIndex(string, c)), c)

RECURSIVE ApplyFilters(_, _, _, _)

\* the loop of Filter over match.group(1).split(","): arg is the outcome so
\* far, an unregistered name raises RuntimeError
ApplyFilters(cfg, names, arg, fuel) ==
  IF names = <<>> \/ arg.err # "" THEN arg
  ELSE IF Head(names) \notin FilterNames THEN Err("RuntimeError")
  ELSE ApplyFilters(cfg, Tail(names),
                    ApplyFilter(cfg, Head(names), arg.val.s, fuel), fuel)

\* StringInterpolator.Filter: pop the argument, filter it, append the
\* result; filter_name is match.group(1)
Filter(cfg, stack, filter_name, fuel) ==
  Filtered(stack, ApplyFilters(cfg, SplitOn(filter_name, ","), Ok(Str(Top(stack))), fuel))

\* "%s.%s" % (self.default_section, parameter_name) when it has no "."
Qualified(default_section, parameter_name) ==
  IF ~Contains(parameter_name, ".")
  THEN Dotted(default_section, parameter_name) ELSE parameter_name

\* an ExpandArg that would write a missing parameter as the text of None
ExpandedNoneAsText(stack, got, found) ==
  IF got.err # "" THEN [err |-> got.err, stack |-> Pop(stack)]
  ELSE IF found.err # "" THEN [err |-> found.err, stack |-> Pop(stack)]
  ELSE [err |-> "",
        stack |-> AppendArg(Pop(stack),
                            ToString(IF found.ti = NoType THEN StringType ELSE found.ti,
                                     got.val))]

\* the end of ExpandArg: got is the outcome of self.config[parameter_name],
\* found that of self.config.FindTypeInfo(parameter_name)
Expanded(stack, got, found) ==
  IF got.err # "" THEN [err |-> got.err, stack |-> Pop(stack)]
  ELSE IF found.err # "" THEN [err |-> found.err, stack |-> Pop(stack)]
  ELSE [err |-> "",
        stack |-> AppendArg(Pop(stack),
                            ToString(IF found.ti = NoType THEN StringType ELSE found.ti,
                                     IF got.val = None THEN Str(<<>>) ELSE got.val))]

\* StringInterpolator.ExpandArg: resolve the popped text as a parameter
ExpandArg(cfg, stack, default_section, fuel) ==
  IF Len(stack) <= 1 THEN [err |-> "ParseError", stack |-> stack]
  ELSE Expanded(stack,
                Get(cfg, Qualified(default_section, Top(stack)), FALSE, TRUE, fuel),
                FindTypeInfo(cfg, Qualified(default_section, Top(stack)), fuel))

\* Lexer.NextToken after a callback: a ParseError raised by the callback
\* goes through StringInterpolator.Error and leaves as ConfigFormatError
Continue(cfg, default_section, rest, state, state_stack, done, fuel) ==
  IF done.err = "ParseError" THEN Err("ConfigFormatError")
  ELSE IF done.err # "" THEN Err(done.err)
  ELSE Lex(cfg, default_section, rest, state, state_stack, done.stack, fuel)

\* the callbacks of one token: what they leave of the stack
Callback(cfg, default_section, action, string, stack, fuel) ==
  CASE action = "AppendArg" -> [err |-> "", stack |-> AppendArg(stack, string)]
    [] action = "Escape" -> [err |-> "", stack |-> AppendArg(stack, EscapeOf(string))]
    [] action \in {"StartExpression", "StartExpression,PushState"} ->
         [err |-> "", stack |-> Append(stack, <<>>)]
    [] action = "EndLiteralExpression,PopState" ->
         IF Len(stack) <= 1 THEN [err |-> "ParseError", stack |-> stack]
         ELSE [err |-> "", stack |-> AppendArg(Pop(stack), Top(stack))]
    [] action = "Filter" ->
         Filter(cfg, stack, SubSeq(string, 2, Len(string) - 1), fuel)
    [] action = "ExpandArg" -> ExpandArg(cfg, stack, default_section, fuel)

\* a Parse that would hand back the first accumulator without the check
FirstAccumulator(stack) == Ok(Str(stack[1]))

\* the end of StringInterpolator.Parse: one accumulator must be left
Balanced(stack) ==
  IF Len(stack) # 1 THEN Err("ParseError") ELSE Ok(Str(stack[1]))

\* Lexer.Close and Lexer.NextToken with the callbacks of StringInterpolator,
\* then the balance check of Parse
Lex(cfg, default_section, buffer, state, state_stack, stack, fuel) ==
  IF buffer = <<>> THEN Balanced(stack)
  ELSE
    LET token == TokenAt(state, buffer)
    IN  Continue(cfg, default_section, Drop(buffer, token.len),
                 \* PushState with next_state "Literal"; PopState
                 IF token.action = "StartExpression,PushState" THEN "Literal"
                 ELSE IF token.action = "EndLiteralExpression,PopState"
                 THEN Top(state_stack) ELSE state,
                 IF token.action = "StartExpression,PushState"
                 THEN Append(state_stack, state)
                 ELSE IF token.action = "EndLiteralExpression,PopState"
                 THEN Pop(state_stack) ELSE state_stack,
                 Callback(cfg, default_section, token.action,
                          Take(buffer, token.len), stack, fuel),
                 fuel)

\* the end of Get: the checks on the interpolated value
Verified(type_info_obj, key, verify, return_value) ==
  IF return_value.err \in {"ParseError", "TypeValueError"}
  THEN Err("ConfigFormatError")
  ELSE IF return_value.err # "" THEN return_value
  ELSE IF verify /\ ~StartsWith(key, <<"_", "_">>)
          /\ Validate(type_info_obj, return_value.val).err # ""
  THEN Err("ConfigFormatError")
  ELSE return_value

\* Get past the environment: found is the outcome of _FindTypeInfo, raw
\* that of _GetValue
Resolved(cfg, section_name, key, verify, found, raw, fuel) ==
  IF found.err # "" THEN Err(found.err)
  ELSE IF raw.err # "" THEN raw
  ELSE Verified(IF found.ti = NoType THEN StringType ELSE found.ti, key, verify,
                InterpolateValue(cfg, NewlineFixup(raw.val),
                                 IF found.ti = NoType THEN StringType ELSE found.ti,
                                 section_name, fuel - 1))

\* GrrConfigManager.Get(name, verify, environ)
Get(cfg, name, verify, environ, fuel) ==
  IF fuel = 0 THEN Err("RecursionLimit")
  ELSE IF environ /\ name \in DOMAIN cfg.environment.flat
  THEN Ok(cfg.environment.flat[name])
  ELSE IF ~HasSection(name) THEN Err("RuntimeError")
  ELSE Resolved(cfg, SectionOf(name), KeyOf(name), verify,
                _FindTypeInfo(cfg, SectionOf(name), KeyOf(name), fuel),
                _GetValue(cfg, SectionOf(name), KeyOf(name), fuel), fuel)

\* GrrConfigManager.GetRaw(name)
GetRaw(cfg, name, fuel) ==
  IF name \in DOMAIN cfg.environment.flat THEN Ok(cfg.environment.flat[name])
  ELSE IF ~HasSection(name) THEN Err("RuntimeError")
  ELSE _GetValue(cfg, SectionOf(name), KeyOf(name), fuel)

-----------------------------------------------------------------------------
(* GrrConfigManager: the calls that change the state.  Each returns        *)
(* [cfg, err]: the state the call leaves and the exception it raised.      *)

Done(cfg) == [cfg |-> cfg, err |-> ""]

Raised(cfg, kind) == [cfg |-> cfg, err |-> kind]

\* self.raw_data.setdefault(section, {})
SetDefaultSection(raw, section) ==
  IF section \in DOMAIN raw THEN raw ELSE Put(raw, section, EmptyMap)

WithRaw(cfg, raw) == [cfg EXCEPT !.raw_data = raw]

\* section_data[key] = type_info_obj.ToString(value) of SetRaw, found being
\* the outcome of _FindTypeInfo
StoreRaw(made, section, key, value, found) ==
  IF found.err # "" THEN Raised(made, found.err)
  ELSE Done(WithRaw(made,
                    Put2(made.raw_data, section, key,
                         ToString(IF found.ti = NoType THEN StringType ELSE found.ti,
                                  value))))

\* GrrConfigManager.SetRaw(name, value)
SetRaw(cfg, name, value, fuel) ==
  IF ~HasSection(name) THEN Raised(cfg, "RuntimeError")
  ELSE StoreRaw(WithRaw(cfg, SetDefaultSection(cfg.raw_data, SectionOf(name))),
                SectionOf(name), KeyOf(name), value,
                _FindTypeInfo(WithRaw(cfg, SetDefaultSection(cfg.raw_data,
                                                             SectionOf(name))),
                              SectionOf(name), KeyOf(name), fuel))

\* section_data.pop(key, None)
PopKey(cfg, section, key) ==
  WithRaw(cfg, Put(cfg.raw_data, section, Remove(cfg.raw_data[section], key)))

\* Set from section_data = self.raw_data.setdefault(section, {}) on: made is
\* the state with the section present, type_info_obj the descriptor in force
Store(made, section, key, value, verify, type_info_obj) ==
  IF value # None /\ verify /\ Validate(type_info_obj, value).err # ""
  THEN Raised(made, "TypeValueError")
  ELSE Done(WithRaw(made,
                    Put2((IF value = None THEN PopKey(made, section, key)
                          ELSE made).raw_data,
                         section, key,
                         EscapeString(ToString(type_info_obj, value)))))

\* Set past the check of the section: found is the outcome of _FindTypeInfo
Checked(cfg, section, key, value, verify, found) ==
  IF found.err # "" THEN Raised(cfg, found.err)
  ELSE Store(WithRaw(cfg, SetDefaultSection(cfg.raw_data, section)),
             section, key, value, verify,
             IF found.ti = NoType THEN StringType ELSE found.ti)

\* a Set that would not refuse the Environment section
SetAnySection(cfg, name, value, verify, fuel) ==
  IF ~HasSection(name) THEN Raised(cfg, "RuntimeError")
  ELSE Checked(cfg, SectionOf(name), KeyOf(name), value, verify,
               _FindTypeInfo(cfg, SectionOf(name), KeyOf(name), fuel))

\* GrrConfigManager.Set(name, value, verify)
Set(cfg, name, value, verify, fuel) ==
  IF ~HasSection(name) THEN Raised(cfg, "RuntimeError")
  ELSE IF StrLower(SectionOf(name)) = StrLower(sEnvironment)
  THEN Raised(cfg, "RuntimeError")
  ELSE Checked(cfg, SectionOf(name), KeyOf(name), value, verify,
               _FindTypeInfo(cfg, SectionOf(name), KeyOf(name), fuel))

\* GrrConfigManager.SetEnv(key, value): one entry under the full name
SetEnvKey(cfg, key, value) ==
  [cfg EXCEPT !.environment.flat = Put(@, key, value)]

\* GrrConfigManager.SetEnv(**env): each named section is replaced
SetEnvSections(cfg, env) ==
  [cfg EXCEPT !.environment.nested =
     [x \in (DOMAIN @) \cup (DOMAIN env) |-> IF x \in DOMAIN env THEN env[x] ELSE @[x]]]

\* GrrConfigManager.AddOption(descriptor), descriptor = [name, type, default]
AddOption(cfg, descriptor) ==
  IF ~HasSection(descriptor.name) THEN Raised(cfg, "RuntimeError")
  ELSE
    LET ti == [type |-> descriptor.type, default |-> descriptor.default]
    IN  Done([cfg EXCEPT
                !.type_infos = Put(@, descriptor.name, ti),
                !.defaults = Put2(@, SectionOf(descriptor.name),
                                  KeyOf(descriptor.name), GetDefault(ti))])

\* a manager whose merge would put the source's section in place of its own
MergeDataWholeSections(raw, new_data) ==
  [sec \in (DOMAIN raw) \cup (DOMAIN new_data) |->
     IF sec \in DOMAIN new_data THEN new_data[sec] ELSE raw[sec]]

\* the section_dict of MergeData after the loop over data.items()
MergeSection(old, data) ==
  [k \in (DOMAIN old) \cup (DOMAIN data) |-> IF k \in DOMAIN data THEN data[k] ELSE old[k]]

\* GrrConfigManager.MergeData(raw_data), on the raw data alone
MergeData(raw, new_data) ==
  [sec \in (DOMAIN raw) \cup (DOMAIN new_data) |->
     IF sec \in DOMAIN new_data
     THEN MergeSection(IF sec \in DOMAIN raw THEN raw[sec] ELSE EmptyMap, new_data[sec])
     ELSE raw[sec]]

RECURSIVE ExecuteKeys(_, _, _, _)
RECURSIVE Replayed(_, _, _, _, _)
RECURSIVE Replay(_, _, _, _, _, _)

\* the loop of ExecuteSection over the keys of the section, in the order
\* the dict hands them out
ExecuteKeys(cfg, section_name, keys, fuel) ==
  IF keys = <<>> THEN Done(cfg)
  ELSE IF ~Contains(Head(keys), ".")
  THEN ExecuteKeys(cfg, section_name, Tail(keys), fuel)
  ELSE IF EndsWith(Head(keys), <<"!">>)
  THEN Replay(cfg, section_name, keys, TRUE,
              GetRaw(cfg, Dotted(section_name, Head(keys)), fuel), fuel)
  ELSE Replay(cfg, section_name, keys, FALSE,
              Get(cfg, Dotted(section_name, Head(keys)), FALSE, TRUE, fuel), fuel)

\* a replay that would write the keys marked with ! through Set as well
ReplayThroughSet(cfg, section_name, keys, raw, got, fuel) ==
  IF got.err # "" THEN Raised(cfg, got.err)
  ELSE Replayed(section_name, keys,
                Set(cfg, IF raw THEN Take(Head(keys), Len(Head(keys)) - 1)
                         ELSE Head(keys),
                    got.val, TRUE, fuel),
                cfg, fuel)

\* self.SetRaw(key[:-1], ...) or self.Set(key, ...) with the value got
Replay(cfg, section_name, keys, raw, got, fuel) ==
  IF got.err # "" THEN Raised(cfg, got.err)
  ELSE Replayed(section_name, keys,
                IF raw
                THEN SetRaw(cfg, Take(Head(keys), Len(Head(keys)) - 1), got.val, fuel)
                ELSE Set(cfg, Head(keys), got.val, TRUE, fuel),
                cfg, fuel)

\* the next round of the loop, unless the write raised
Replayed(section_name, keys, done, cfg, fuel) ==
  IF done.err # "" THEN done
  ELSE ExecuteKeys(done.cfg, section_name, Tail(keys), fuel)

\* GrrConfigManager.ExecuteSection(section_name); order lists the keys of
\* the section as the iteration yields them
ExecuteSection(cfg, section_name, order, fuel) ==
  IF Get(cfg, Dotted(section_name, <<"_","_","d","o","c","_","_">>),
         FALSE, TRUE, fuel).err # ""
  THEN Raised(cfg, Get(cfg, Dotted(section_name, <<"_","_","d","o","c","_","_">>),
                       FALSE, TRUE, fuel).err)
  ELSE IF section_name \in DOMAIN cfg.raw_data
          /\ DOMAIN cfg.raw_data[section_name] # {}
  THEN ExecuteKeys(cfg, section_name, order, fuel)
  ELSE Done(cfg)

\* the orders in which a dict with these keys can be iterated
Orders(keys) ==
  {o \in [1..Cardinality(keys) -> keys] : \A i, j \in DOMAIN o : i # j => o[i] # o[j]}

\* the validation_errors dict, as the names it holds
Dict(names) == [s |-> <<>>, n |-> 0, t |-> "dict", keys |-> names]

\* Validate's test of a descriptor against a parameter: a dotted parameter
\* names one descriptor, any other names a section
Matches(parameter, name) ==
  \/ Contains(parameter, ".") /\ name = parameter
  \/ parameter = SectionOf(name)

RECURSIVE ValidateScan(_, _, _, _, _, _)

\* the body of Validate's loops for a matching descriptor: value is the
\* outcome of self.Get(descriptor.name), made outside the try
ValidateDescriptor(cfg, parameters, order, descriptors, validation_errors, value) ==
  IF value.err # "" THEN Err(value.err)
  ELSE ValidateScan(cfg, parameters, order, Tail(descriptors),
         IF Validate(cfg.type_infos[Head(descriptors)], value.val).err # ""
         THEN validation_errors \cup {Head(descriptors)}
         ELSE validation_errors, MaxDepth)

\* Validate's two loops: descriptors is what is left of self.type_infos to
\* scan for the first of the parameters
ValidateScan(cfg, parameters, order, descriptors, validation_errors, fuel) ==
  IF parameters = <<>> THEN Ok(Dict(validation_errors))
  ELSE IF descriptors = <<>>
  THEN ValidateScan(cfg, Tail(parameters), order, order, validation_errors, fuel)
  ELSE IF ~Matches(Head(parameters), Head(descriptors))
  THEN ValidateScan(cfg, parameters, order, Tail(descriptors), validation_errors, fuel)
  ELSE ValidateDescriptor(cfg, parameters, order, descriptors, validation_errors,
                          Get(cfg, Head(descriptors), FALSE, TRUE, fuel))

\* GrrConfigManager.Validate(parameters); order is the sequence of the names
\* in self.type_infos
ManagerValidate(cfg, parameters, order, fuel) ==
  ValidateScan(cfg, parameters, order, order, {}, fuel)

-----------------------------------------------------------------------------
(* The manager as a state machine: the calls a program makes on one        *)
(* GrrConfigManager, over a small universe of names and values.            *)

nAk == Dotted(sA, sK)
nBk == Dotted(sB, sK)
nEnvK == Dotted(sEnvironment, sK)
nEnvLowerK == Dotted(StrLower(sEnvironment), sK)
nAinherit == Dotted(sA, sInherit)
\* the entry A.k of section S, replayed by ExecuteSection through Set/Get
nSAk == Dotted(sS, nAk)
\* the entry A.k! of section S, replayed through SetRaw/GetRaw
nSAkRaw == Dotted(sS, nAk \o <<"!">>)

\* a raw value that refers to B.k
vRefBk == <<"%", "(">> \o nBk \o <<")">>
sD == <<"d">>

SetArgs == ({nAk, nBk, nSAk} \X {Str(sV), Str(vRefBk), None})
           \cup ({nEnvK, nEnvLowerK} \X {Str(sV)})

SetRawArgs == ({nAk, nBk, nSAk, nSAkRaw} \X {Str(sV), Str(vRefBk)})
              \cup {<<nAinherit, Str(sB)>>}

SetEnvKeyArgs == {nAk, nSAk} \X {Str(sW)}

SetEnvSectionArgs == {Put(EmptyMap, sec, Put(EmptyMap, sK, Str(sW))) : sec \in {sA, sB}}

Descriptors ==
  {[name |-> nAk, type |-> "String", default |-> Str(sD)],
   [name |-> nAk, type |-> "String", default |-> Str(vRefBk)],
   [name |-> nAk, type |-> "String", default |-> None],
   [name |-> nBk, type |-> "Integer", default |-> Num(5)]}

\* a raw value that refers to A.k and adds a character to it
vRefAk == <<"%", "(">> \o nAk \o <<")">> \o sV

\* what a source's RawData() returns
Sources ==
  {Put(EmptyMap, sS, Put(Put(EmptyMap, nAk, vRefBk), sD, sV)),
   Put(EmptyMap, sS, Put(EmptyMap, nAk, vRefAk)),
   Put(Put(EmptyMap, sA, Put(EmptyMap, sK, sW)), sB, Put(EmptyMap, sK, sV))}

GetNames == {nAk, nBk, nSAk}

\* a section or a parameter, as Validate takes them
ValidateArgs == {sB, nAk}

NoCall == [op |-> "", name |-> <<>>]

Called(op, name, value, err, val, prev) ==
  [op |-> op, name |-> name, value |-> value, err |-> err, val |-> val, prev |-> prev]

\* the manager as the program sees it
CONFIG == Config(raw_data, environment, defaults, type_infos)

\* the manager of the run made with no environment
ConfigNoEnv == Config(raw_noenv, EmptyEnv, defaults, type_infos)

\* the state after __init__, before any option is declared
Init ==
  /\ raw_data = EmptyMap
  /\ environment = EmptyEnv
  /\ defaults = EmptyMap
  /\ type_infos = EmptyMap
  /\ raw_noenv = EmptyMap
  /\ loaded = <<>>
  /\ parser = None
  /\ input = <<>>
  /\ last = Called("__init__", <<>>, None, "", None, NoCall)
  /\ steps = 0

\* a call that changed (or tried to change) the state: done is its [cfg, err]
\* on the manager, shadow the same call with no environment
Commit(op, name, value, done, shadow) ==
  /\ raw_data' = done.cfg.raw_data
  /\ environment' = done.cfg.environment
  /\ defaults' = done.cfg.defaults
  /\ type_infos' = done.cfg.type_infos
  /\ raw_noenv' = shadow.cfg.raw_data
  /\ last' = Called(op, name, value, done.err, None, NoCall)
  /\ steps' = steps + 1
  /\ UNCHANGED <<loaded, parser, input>>

CallAddOption ==
  \E d \in Descriptors :
    /\ steps < MaxOps
    /\ Commit("AddOption", d.name, d.default, AddOption(CONFIG, d),
              [cfg |-> ConfigNoEnv, err |-> ""])

CallSet ==
  \E a \in SetArgs :
    /\ steps < MaxOps
    /\ Commit("Set", a[1], a[2], Set(CONFIG, a[1], a[2], TRUE, MaxDepth),
              Set(ConfigNoEnv, a[1], a[2], TRUE, MaxDepth))

CallSetRaw ==
  \E a \in SetRawArgs :
    /\ steps < MaxOps
    /\ Commit("SetRaw", a[1], a[2], SetRaw(CONFIG, a[1], a[2], MaxDepth),
              SetRaw(ConfigNoEnv, a[1], a[2], MaxDepth))

CallSetEnv ==
  \/ \E a \in SetEnvKeyArgs :
       /\ steps < MaxOps
       /\ Commit("SetEnv", a[1], a[2], Done(SetEnvKey(CONFIG, a[1], a[2])),
                 Done(ConfigNoEnv))
  \/ \E env \in SetEnvSectionArgs :
       /\ steps < MaxOps
       /\ Commit("SetEnv", <<>>, None, Done(SetEnvSections(CONFIG, env)),
                 Done(ConfigNoEnv))

CallMergeData ==
  \E src \in Sources :
    /\ steps < MaxOps
    /\ Commit("MergeData", <<>>, None,
              Done(WithRaw(CONFIG, MergeData(raw_data, src))),
              Done(WithRaw(ConfigNoEnv, MergeData(raw_noenv, src))))

KeysOf(raw, section) == IF section \in DOMAIN raw THEN DOMAIN raw[section] ELSE {}

CallExecuteSection ==
  \E order \in Orders(KeysOf(raw_data, sS)) :
    \E shadow_order \in Orders(KeysOf(raw_noenv, sS)) :
      /\ steps < MaxOps
      /\ KeysOf(raw_data, sS) = KeysOf(raw_noenv, sS) => shadow_order = order
      /\ Commit("ExecuteSection", sS, None,
                ExecuteSection(CONFIG, sS, order, MaxDepth),
                ExecuteSection(ConfigNoEnv, sS, shadow_order, MaxDepth))

\* a read: the state is left alone, the outcome is recorded
Read(op, name, res) ==
  /\ last' = Called(op, name, None, res.err, res.val,
                    IF last.op \in {"Get", "GetRaw", "Validate"} THEN NoCall
                    ELSE [op |-> last.op, name |-> last.name])
  /\ UNCHANGED <<raw_data, environment, defaults, type_infos, raw_noenv,
                 loaded, parser, input, steps>>

CallGet ==
  \E name \in GetNames : Read("Get", name, Get(CONFIG, name, FALSE, TRUE, MaxDepth))

CallGetRaw ==
  \E name \in GetNames : Read("GetRaw", name, GetRaw(CONFIG, name, MaxDepth))

\* Validate(parameter) with one string, which Validate wraps in a list
CallValidate ==
  \E parameter \in ValidateArgs : \E order \in Orders(DOMAIN type_infos) :
    Read("Validate", parameter, ManagerValidate(CONFIG, <<parameter>>, order, MaxDepth))

Next ==
  \/ CallSetRaw
  \/ CallMergeData
  \/ CallSetEnv
  \/ CallAddOption
  \/ CallSet
  \/ CallExecuteSection
  \/ CallGet
  \/ CallGetRaw
  \/ CallValidate

Spec == Init /\ [][Next]_vars

-----------------------------------------------------------------------------
(* Loading of sources (specification SpecLoad)                             *)

sJ == <<"j">>

\* the readable files, each with what RawData() makes of it
Files ==
  [path \in {"f1", "f2", "f3", "f4", "f5"} |->
     CASE path = "f1" -> Put(EmptyMap, sA, Put(Put(EmptyMap, sK, sV), sJ, sV))
       [] path = "f2" -> Put(EmptyMap, sA, Put(EmptyMap, sK, sW))
       [] path = "f3" -> Put(Put(EmptyMap, sB, Put(EmptyMap, sK, sW)),
                             sA, Put(EmptyMap, sJ, sW))
       [] path = "f4" -> Put(EmptyMap, sB, EmptyMap)
       [] path = "f5" -> Put(Put(EmptyMap, sS, Put(EmptyMap, nAk, sS)),
                             sT, Put(EmptyMap, nAk, sT))]

\* the urls handed to LoadSecondaryConfig and Initialize(filename=...)
Urls ==
  {[scheme |-> "file", path |-> "f1"], [scheme |-> "file", path |-> "f2"],
   [scheme |-> "file", path |-> "missing"], [scheme |-> "c", path |-> "f3"],
   [scheme |-> "reg", path |-> "HKLM"]}

\* GRRConfigParser.RawData() of a ConfigFileParser made for the file: a file
\* that cannot be read leaves the parser empty
RawData(path) == IF path \in DOMAIN Files THEN Files[path] ELSE EmptyMap

\* GrrConfigManager._GetParserFromFilename(path): the parser named by the
\* scheme, else the file parser for a readable path, else None
_GetParserFromFilename(url) ==
  IF url.scheme = "file" THEN "ConfigFileParser"
  ELSE IF url.path \in DOMAIN Files THEN "ConfigFileParser"
  ELSE "None"

Loaded(raw, err, source) == [raw |-> raw, err |-> err, source |-> source]

NoSource == [none |-> TRUE]

\* GrrConfigManager.LoadSecondaryConfig(url), on the raw data: calling the
\* None that stands for "no parser" is a TypeError
LoadSecondaryConfig(raw, url) ==
  IF _GetParserFromFilename(url) = "None" THEN Loaded(raw, "TypeError", NoSource)
  ELSE Loaded(MergeData(raw, RawData(url.path)), "", RawData(url.path))

\* the raw data Initialize starts from
Reset(raw, reset) == IF reset THEN EmptyMap ELSE raw

\* Initialize(filename=url, must_exist=...), the load having been made
MustExist(done, url, must_exist) ==
  IF done.err = "" /\ must_exist /\ url.path \notin DOMAIN Files
  THEN Loaded(done.raw, "ConfigFormatError", done.source)
  ELSE done

\* GrrConfigManager.Initialize(filename, data, fd, reset, must_exist), on the
\* raw data; how = [kind, url, data] tells which argument is given
Initialize(raw, how, reset, must_exist) ==
  IF how.kind \in {"fd", "data"}
  THEN Loaded(MergeData(Reset(raw, reset), how.data), "", how.data)
  ELSE IF how.kind = "filename"
  THEN MustExist(LoadSecondaryConfig(Reset(raw, reset), how.url), how.url, must_exist)
  ELSE Loaded(Reset(raw, reset), "RuntimeError", NoSource)

InitializeArgs ==
  {[kind |-> "filename", url |-> u, data |-> EmptyMap] : u \in Urls}
  \cup {[kind |-> k, url |-> [scheme |-> "", path |-> ""], data |-> Files[f]] :
          k \in {"fd", "data"}, f \in {"f1", "f4"}}
  \cup {[kind |-> "none", url |-> [scheme |-> "", path |-> ""], data |-> EmptyMap]}

\* the sources merged so far, a reset forgetting the earlier ones
Sourced(history, reset, done) ==
  (IF reset THEN <<>> ELSE history)
  \o (IF done.source = NoSource THEN <<>> ELSE <<done.source>>)

InitLoad == Init

\* self.parser as Initialize leaves it: the parser made for the source,
\* which has a file name unless it was made from data; the one it had when
\* Initialize raises before the assignment
ParserOf(how, done, old) ==
  IF done.source = NoSource THEN old
  ELSE [data |-> done.source, filename |-> how.kind # "data"]

\* a parser that would write raw_data in place of what it holds
SaveRawDataOnly(self, raw) == [self EXCEPT !.data = raw]

\* ConfigFileParser.SaveDataToFD(raw_data, fd): the sections and keys of
\* raw_data are set in the parser, which then writes all it holds
SaveDataToFD(self, raw) ==
  [self EXCEPT !.data =
     [section \in DOMAIN self.data \cup DOMAIN raw |->
        [key \in KeysOf(self.data, section) \cup KeysOf(raw, section) |->
           IF key \in KeysOf(raw, section) THEN raw[section][key]
           ELSE self.data[section][key]]]]

\* the outcome of a write: the parser after it, the error raised, whether
\* the parser's content reached the destination
Saved(self, err, persisted) == [parser |-> self, err |-> err, persisted |-> persisted]

\* GrrConfigManager.Write(): self.parser.SaveData(self.raw_data); a file
\* that cannot be opened for writing is logged and nothing is written
Write(self, raw, writable) ==
  IF self = None THEN Saved(self, "AttributeError", FALSE)
  ELSE IF ~self.filename THEN Saved(self, "IOError", FALSE)
  ELSE IF ~writable THEN Saved(self, "", FALSE)
  ELSE Saved(SaveDataToFD(self, raw), "", TRUE)

\* GrrConfigManager.WriteToFD(fd)
WriteToFD(self, raw) ==
  IF self = None THEN Saved(self, "AttributeError", FALSE)
  ELSE Saved(SaveDataToFD(self, raw), "", TRUE)

\* a write: only the parser changes
WriteCommit(op, done) ==
  /\ parser' = done.parser
  /\ last' = Called(op, <<>>, [persisted |-> done.persisted], done.err, None, NoCall)
  /\ UNCHANGED <<raw_data, environment, defaults, type_infos, raw_noenv,
                 loaded, input, steps>>

LoadWrite ==
  \E writable \in BOOLEAN : WriteCommit("Write", Write(parser, raw_data, writable))

LoadWriteToFD == WriteCommit("WriteToFD", WriteToFD(parser, raw_data))

LoadCommit(op, name, done, reset, parsed) ==
  /\ raw_data' = done.raw
  /\ parser' = parsed
  /\ raw_noenv' = done.raw
  /\ loaded' = Sourced(loaded, reset, done)
  /\ last' = Called(op, name, None, done.err, None, NoCall)
  /\ UNCHANGED <<environment, defaults, type_infos, input, steps>>

LoadInitialize ==
  \E how \in InitializeArgs : \E reset \in BOOLEAN : \E must_exist \in BOOLEAN :
    /\ reset \/ Len(loaded) < MaxLoads
    /\ LoadCommit("Initialize", <<>>, Initialize(raw_data, how, reset, must_exist), reset,
                  ParserOf(how, Initialize(raw_data, how, reset, must_exist), parser))

\* the url as the caller writes it
UrlName(url) == <<url.scheme, ":", url.path>>

LoadSecondary ==
  \E url \in Urls :
    /\ Len(loaded) < MaxLoads
    /\ LoadCommit("LoadSecondaryConfig", UrlName(url),
                  LoadSecondaryConfig(raw_data, url), FALSE, parser)

LoadMerge ==
  \E f \in DOMAIN Files :
    /\ Len(loaded) < MaxLoads
    /\ LoadCommit("MergeData", <<>>,
                  Loaded(MergeData(raw_data, Files[f]), "", Files[f]), FALSE, parser)

NextLoad ==
  \/ LoadInitialize
  \/ LoadSecondary
  \/ LoadMerge
  \/ LoadWrite
  \/ LoadWriteToFD

SpecLoad == InitLoad /\ [][NextLoad]_vars

-----------------------------------------------------------------------------
(* LoadConfig (specification SpecBoot)                                     *)

\* GrrConfigManager(): a manager as __init__ leaves it; type_infos and
\* defaults are attributes of the class, shared by every manager
GrrConfigManager(cfg) == Config(EmptyMap, EmptyEnv, cfg.defaults, cfg.type_infos)

RECURSIVE LoadSecondaries(_, _)

\* for config_url in secondary_configs: config_obj.LoadSecondaryConfig(...)
LoadSecondaries(cfg, secondary_configs) ==
  IF secondary_configs = <<>> THEN Done(cfg)
  ELSE IF LoadSecondaryConfig(cfg.raw_data, Head(secondary_configs)).err # ""
  THEN Raised(cfg, LoadSecondaryConfig(cfg.raw_data, Head(secondary_configs)).err)
  ELSE LoadSecondaries(
         WithRaw(cfg, LoadSecondaryConfig(cfg.raw_data, Head(secondary_configs)).raw),
         Tail(secondary_configs))

\* the order in which the section's keys are iterated; RawData() keeps the
\* order of the file
KeyOrder(cfg, section_name) ==
  CHOOSE order \in Orders(KeysOf(cfg.raw_data, section_name)) : TRUE

RECURSIVE ExecuteSections(_, _, _)

\* the next section of the list, unless the last ExecuteSection raised
Executing(done, sections, fuel) ==
  IF done.err # "" THEN done ELSE ExecuteSections(done.cfg, sections, fuel)

\* config_obj.ExecuteSection(section) for each section of the list
ExecuteSections(cfg, sections, fuel) ==
  IF sections = <<>> THEN Done(cfg)
  ELSE Executing(ExecuteSection(cfg, Head(sections), KeyOrder(cfg, Head(sections)), fuel),
                 Tail(sections), fuel)

\* a loader that would execute the component section after the others
PrimedComponentLast(config_obj, done, secondary_configs, component_section, execute_sections, fuel) ==
  IF done.err # "" THEN Raised(WithRaw(config_obj, done.raw), done.err)
  ELSE Executing(LoadSecondaries(WithRaw(config_obj, done.raw), secondary_configs),
                 execute_sections
                   \o (IF component_section = <<>> THEN <<>> ELSE <<component_section>>),
                 fuel)

\* LoadConfig after the primary source: done is the outcome of Initialize
\* (made with its default reset=True), component_section is <<>> when none
\* is given
Primed(config_obj, done, secondary_configs, component_section, execute_sections, fuel) ==
  IF done.err # "" THEN Raised(WithRaw(config_obj, done.raw), done.err)
  ELSE Executing(LoadSecondaries(WithRaw(config_obj, done.raw), secondary_configs),
                 (IF component_section = <<>> THEN <<>> ELSE <<component_section>>)
                   \o execute_sections,
                 fuel)

\* LoadConfig(config_obj, config_file, secondary_configs, component_section,
\* execute_sections, reset); config_file is a filename, a file object (fd)
\* or neither
LoadConfig(config_obj, config_file, secondary_configs, component_section, execute_sections, reset, fuel) ==
  Primed(IF reset THEN GrrConfigManager(config_obj) ELSE config_obj,
         IF config_file.kind = "filename"
         THEN Initialize((IF reset THEN GrrConfigManager(config_obj) ELSE config_obj).raw_data,
                         config_file, TRUE, TRUE)
         ELSE IF config_file.kind = "fd"
         THEN Initialize((IF reset THEN GrrConfigManager(config_obj) ELSE config_obj).raw_data,
                         config_file, TRUE, FALSE)
         ELSE Loaded((IF reset THEN GrrConfigManager(config_obj) ELSE config_obj).raw_data,
                     "", NoSource),
         secondary_configs, component_section, execute_sections, fuel)

File(path) == [scheme |-> "file", path |-> path]

NoUrl == [scheme |-> "", path |-> ""]

\* the config_file arguments: a file name, a file object, neither
BootFiles ==
  {[kind |-> "filename", url |-> File(p), data |-> EmptyMap] : p \in {"f1", "missing"}}
  \cup {[kind |-> "fd", url |-> NoUrl, data |-> Files["f2"]],
        [kind |-> "none", url |-> NoUrl, data |-> EmptyMap]}

BootSecondaries ==
  {<<>>, <<File("f5")>>, <<File("f2"), File("f1")>>, <<File("f5"), File("f2")>>}

BootComponents == {<<>>, sS, sT}

BootExecutes == {<<>>, <<sT>>, <<sT, sS>>}

BootArgs ==
  [config_file : BootFiles, secondary_configs : BootSecondaries,
   component_section : BootComponents, execute_sections : BootExecutes,
   reset : BOOLEAN]

\* what the program has stored before the loader runs
BootEntries == {<<nBk, sW>>, <<Dotted(sA, sJ), sW>>, <<nAk, sD>>}

BootSetRaw ==
  \E e \in BootEntries :
    /\ steps < MaxBoots
    /\ Commit("SetRaw", e[1], Str(e[2]), SetRaw(CONFIG, e[1], Str(e[2]), MaxDepth),
              SetRaw(CONFIG, e[1], Str(e[2]), MaxDepth))

\* self.parser of the manager LoadConfig returns: a new manager has none,
\* Initialize sets it
BootParser(a, old) ==
  IF a.config_file.kind \in {"filename", "fd"}
  THEN ParserOf(a.config_file,
                Initialize(EmptyMap, a.config_file, TRUE, a.config_file.kind = "filename"),
                IF a.reset THEN None ELSE old)
  ELSE IF a.reset THEN None ELSE old

\* the manager LoadConfig returns takes the place of the one the program held
BootCommit(a, done) ==
  /\ raw_data' = done.cfg.raw_data
  /\ raw_noenv' = done.cfg.raw_data
  /\ environment' = done.cfg.environment
  /\ defaults' = done.cfg.defaults
  /\ type_infos' = done.cfg.type_infos
  /\ parser' = BootParser(a, parser)
  /\ last' = Called("LoadConfig", <<>>, a, done.err, None, NoCall)
  /\ steps' = steps + 1
  /\ UNCHANGED <<loaded, input>>

\* LoadConfig(CONFIG, ...) on the manager the program holds
BootLoadConfig ==
  \E a \in BootArgs :
    /\ steps < MaxBoots
    /\ BootCommit(a, LoadConfig(CONFIG, a.config_file, a.secondary_configs,
                                a.component_section, a.execute_sections, a.reset,
                                MaxDepth))

NextBoot ==
  \/ BootSetRaw
  \/ BootLoadConfig

SpecBoot == Init /\ [][NextBoot]_vars

-----------------------------------------------------------------------------
(* Section inheritance (specification SpecInherit)                         *)

InheritSections == {sA, sB, sC}

\* the value each section gives to k, and the sections it may inherit from
InheritEntries ==
  {<<Dotted(sA, sK), sV>>, <<Dotted(sB, sK), sW>>, <<Dotted(sC, sK), sD>>,
   <<Dotted(sA, sInherit), sB>>, <<Dotted(sA, sInherit), sC>>,
   <<Dotted(sB, sInherit), sC>>, <<Dotted(sB, sInherit), sA>>,
   <<Dotted(sC, sInherit), sA>>, <<Dotted(sC, sInherit), sC>>}

InheritNames == {Dotted(sec, key) : sec \in InheritSections, key \in {sK, sInherit}}

InitInherit == Init

\* a call that configures the manager
Configure(done) ==
  /\ steps < MaxEntries
  /\ raw_data' = done.cfg.raw_data
  /\ raw_noenv' = done.cfg.raw_data
  /\ environment' = done.cfg.environment
  /\ defaults' = done.cfg.defaults
  /\ type_infos' = done.cfg.type_infos
  /\ last' = Called("configure", <<>>, None, done.err, None, NoCall)
  /\ steps' = steps + 1
  /\ UNCHANGED <<loaded, parser, input>>

InheritSetRaw ==
  \E e \in InheritEntries : Configure(SetRaw(CONFIG, e[1], Str(e[2]), MaxDepth))

InheritSetEnv ==
  \E e \in InheritEntries :
    Configure(Done(SetEnvSections(CONFIG,
                                  Put(EmptyMap, SectionOf(e[1]),
                                      Put(EmptyMap, KeyOf(e[1]), Str(e[2]))))))

InheritAddOption ==
  \E e \in InheritEntries :
    Configure(AddOption(CONFIG, [name |-> e[1], type |-> "String", default |-> Str(e[2])]))

\* a lookup: the state is left alone, the outcome is recorded
Lookup(op, name, res) ==
  /\ last' = Called(op, name, None, res.err, res.val, NoCall)
  /\ UNCHANGED <<raw_data, environment, defaults, type_infos, raw_noenv,
                 loaded, parser, input, steps>>

InheritGetValue ==
  \E name \in InheritNames :
    Lookup("_GetValue", name, _GetValue(CONFIG, SectionOf(name), KeyOf(name), MaxDepth))

InheritGetRaw ==
  \E name \in InheritNames : Lookup("GetRaw", name, GetRaw(CONFIG, name, MaxDepth))

InheritGet ==
  \E name \in InheritNames : Lookup("Get", name, Get(CONFIG, name, FALSE, TRUE, MaxDepth))

NextInherit ==
  \/ InheritSetRaw
  \/ InheritSetEnv
  \/ InheritAddOption
  \/ InheritGetValue
  \/ InheritGetRaw
  \/ InheritGet

SpecInherit == InitInherit /\ [][NextInherit]_vars

-----------------------------------------------------------------------------
(* Strings through escaping and interpolation (specification SpecStr)      *)

sInner == <<"i","n","n","e","r">>
sMiXed == <<"M","i","X","e","d">>
sMixedLower == <<"m","i","x","e","d">>

\* the characters of the enumerated strings
StrAlphabet == {"\\", "%", "(", ")", "{", "}", "|", "\n", "a"}

\* %(body)
Expansion(body) == <<"%", "(">> \o body \o <<")">>

\* %(body|filter_name)
Filtering(body, filter_name) == <<"%", "(">> \o body \o <<"|">> \o filter_name \o <<")">>

NestedTexts == {sInner, sMiXed, <<"a", "B">>}

NestedFilters == {fLower, fUpper}

\* a filtered region inside a filtered region, around a text or around the
\* expansion of a parameter
NestedInputs ==
  {Filtering(Filtering(t, f1), f2) : t \in NestedTexts, f1 \in NestedFilters,
                                     f2 \in NestedFilters}
  \cup {Filtering(Filtering(Expansion(sInner), f1), f2) : f1 \in NestedFilters,
                                                         f2 \in NestedFilters}

\* closes with no region open: ")" and "|name)" after a text or after none
CloseInputs ==
  {t \o c : t \in {<<>>, <<"a", "B">>},
            c \in {<<")">>, <<"|">> \o fLower \o <<")">>, <<"|">> \o fUpper \o <<")">>,
                   <<"|", "n", "o", ")">>}}

\* regions left open, the last one after a region that is closed
UnclosedInputs ==
  {<<"%", "(", "a", "b", "c">>, <<"%", "{", "a", "b", "c">>,
   <<"%", "(", "a">> \o Expansion(<<"a", "b", "c">>)}

\* %(body|f1,f2)
FilterChain(body, f1, f2) ==
  <<"%", "(">> \o body \o <<"|">> \o f1 \o <<",">> \o f2 \o <<")">>

\* a region closed by one filter or by a chain of two
ChainInputs ==
  {FilterChain(t, f1, f2) : t \in NestedTexts, f1 \in NestedFilters, f2 \in NestedFilters}
  \cup {Filtering(t, f) : t \in NestedTexts, f \in NestedFilters}

\* a region closed by a filter that is not registered, or that fails
FailingFilterInputs ==
  {Filtering(<<"a", "B">>, f) : f \in {<<"n", "o">>, fFile, fFlags}}

\* a reference to a parameter that has no value, alone and inside a text
MissingInputs ==
  {Expansion(nBk), <<"a">> \o Expansion(nBk) \o <<"B">>, <<"a">> \o Expansion(sV)}

StrInputs ==
  StringsUpTo(StrAlphabet, MaxLen) \cup NestedInputs \cup CloseInputs
  \cup UnclosedInputs \cup ChainInputs \cup FailingFilterInputs
  \cup MissingInputs

\* a manager whose A.inner is "MiXed", and a string to work on
InitStr ==
  /\ raw_data = Put(EmptyMap, sA, Put(EmptyMap, sInner, sMiXed))
  /\ raw_noenv = raw_data
  /\ environment = EmptyEnv
  /\ defaults = EmptyMap
  /\ type_infos = EmptyMap
  /\ loaded = <<>>
  /\ parser = None
  /\ input \in StrInputs
  /\ last = Called("__init__", <<>>, None, "", None, NoCall)
  /\ steps = 0

\* Set("A.k", input)
StrSet ==
  /\ last.op # "Set"
  /\ raw_data' = Set(CONFIG, nAk, Str(input), TRUE, MaxDepth).cfg.raw_data
  /\ raw_noenv' = raw_data'
  /\ last' = Called("Set", nAk, Str(input),
                    Set(CONFIG, nAk, Str(input), TRUE, MaxDepth).err, None, NoCall)
  /\ UNCHANGED <<environment, defaults, type_infos, loaded, parser, input,
                 steps>>

\* SetRaw("A.k", input)
StrSetRaw ==
  /\ last.op # "SetRaw"
  /\ raw_data' = SetRaw(CONFIG, nAk, Str(input), MaxDepth).cfg.raw_data
  /\ raw_noenv' = raw_data'
  /\ last' = Called("SetRaw", nAk, Str(input),
                    SetRaw(CONFIG, nAk, Str(input), MaxDepth).err, None, NoCall)
  /\ UNCHANGED <<environment, defaults, type_infos, loaded, parser, input,
                 steps>>

\* Get("A.k", verify=True)
StrGetVerify == Read("GetVerify", nAk, Get(CONFIG, nAk, TRUE, TRUE, MaxDepth))

\* Get("A.k")
StrGet == Read("Get", nAk, Get(CONFIG, nAk, FALSE, TRUE, MaxDepth))

\* the interpolation of the string, in section A
StrParse == Read("Parse", <<>>, Parse(CONFIG, input, sA, MaxDepth))

\* the interpolation of the escaped string
StrEscapeParse ==
  Read("EscapeString", <<>>, Parse(CONFIG, EscapeString(input), sA, MaxDepth))

\* %{body}
LiteralRegion(body) == <<"%", "{">> \o body \o <<"}">>

\* the interpolation of the string put in a literal region
StrLiteralParse ==
  Read("Literal", <<>>, Parse(CONFIG, LiteralRegion(input), sA, MaxDepth))

NextStr ==
  \/ StrSet
  \/ StrSetRaw
  \/ StrGetVerify
  \/ StrGet
  \/ StrParse
  \/ StrEscapeParse
  \/ StrLiteralParse

SpecStr == InitStr /\ [][NextStr]_vars

-----------------------------------------------------------------------------
(* Claims on the manager (specification Spec)                              *)

\* the environment layer holds an entry for the name, in either form
EnvHolds(name) ==
  \/ name \in DOMAIN environment.flat
  \/ Get2(environment.nested, SectionOf(name), KeyOf(name)) # None

\* the last call is Get(name) made right after AddOption declared name, and
\* neither Raw Data nor the environment holds a value for it
GetAfterAddOption ==
  /\ last.op = "Get"
  /\ last.prev = [op |-> "AddOption", name |-> last.name]
  /\ RawGet(CONFIG, SectionOf(last.name), KeyOf(last.name)) = None
  /\ ~EnvHolds(last.name)

DefaultOf(name) == Get2(defaults, SectionOf(name), KeyOf(name))

\* a string with no escape, no expression and no line break in it
Plain(string) ==
  \A i \in 1..Len(string) : string[i] \notin {"\\", "%", ")", "\n", "\r"}

SetNoneStep ==
  /\ steps' = steps + 1
  /\ last'.op = "Set"
  /\ last'.value = None
  /\ last'.err = ""

\* C4 as stated: Set(name, None) deletes the key from the section's Raw
\* Data and leaves every other key of Raw Data unchanged.
C4_SetNoneDeletesKey ==
  [][SetNoneStep =>
       /\ KeyOf(last'.name) \notin KeysOf(raw_data', SectionOf(last'.name))
       /\ \A sec \in DOMAIN raw_data : \A key \in DOMAIN raw_data[sec] :
            Dotted(sec, key) # last'.name =>
              RawGet(CONFIG', sec, key) = RawGet(CONFIG, sec, key)]_vars

\* the step is a call of Set on a parameter of the Environment section
SetEnvironmentStep ==
  /\ steps' = steps + 1
  /\ last'.op = "Set"
  /\ StrLower(SectionOf(last'.name)) = StrLower(sEnvironment)

\* C7: Set on a parameter of the reserved Environment section raises an
\* error and leaves Raw Data and the environment layer unchanged.
C7_SetEnvironmentRaises ==
  [][SetEnvironmentStep =>
       /\ last'.err = "RuntimeError"
       /\ raw_data' = raw_data
       /\ environment' = environment]_vars

\* C7 witness: Set("Environment.k", "v") was called on a manager that holds
\* raw data and an environment, and it raised.
C7_Witness ==
  /\ last.op = "Set"
  /\ last.name = nEnvK
  /\ last.err = "RuntimeError"
  /\ raw_data # EmptyMap
  /\ environment # EmptyEnv

\* C8 as stated: when the environment holds a value for a parameter, as a
\* flat entry or as environment[Section][key], and Raw Data holds one too,
\* Get returns the environment's value.
C8_EnvironmentWins ==
  (/\ last.op = "Get"
   /\ EnvHolds(last.name)
   /\ RawGet(CONFIG, SectionOf(last.name), KeyOf(last.name)) # None) =>
    /\ last.err = ""
    /\ last.val = IF last.name \in DOMAIN environment.flat
                  THEN environment.flat[last.name]
                  ELSE Get2(environment.nested, SectionOf(last.name), KeyOf(last.name))

\* C9 as stated: the Raw Data (what Write persists) is what the same calls
\* leave when the environment layer is empty.
C9_EnvironmentNeverWritten == raw_data = raw_noenv

-----------------------------------------------------------------------------
(* Claims on the loading of sources (specification SpecLoad)               *)

\* the loads, oldest first, of the sources that define section.key
Defining(section, key) ==
  {i \in 1..Len(loaded) : section \in DOMAIN loaded[i] /\ key \in DOMAIN loaded[i][section]}

\* C2: for every section and key the Raw Data holds the value of the last
\* loaded source that defines the key, a key no later source defines keeps
\* the value of the earlier one, and Raw Data holds no key that no source
\* defines.
C2_LastLoadedSourceWins ==
  /\ \A section \in DOMAIN raw_data : \A key \in DOMAIN raw_data[section] :
       Defining(section, key) # {}
  /\ \A i \in 1..Len(loaded) : \A section \in DOMAIN loaded[i] :
       /\ section \in DOMAIN raw_data
       /\ \A key \in DOMAIN loaded[i][section] :
            /\ key \in DOMAIN raw_data[section]
            /\ \E j \in Defining(section, key) :
                 /\ \A m \in Defining(section, key) : m <= j
                 /\ raw_data[section][key] = loaded[j][section][key]

\* C2 witness: two sources were loaded, both define A.k with different
\* values and only the first defines A.j; Raw Data has the second's A.k and
\* the first's A.j.
C2_Witness ==
  /\ Len(loaded) = 2
  /\ Defining(sA, sK) = {1, 2}
  /\ Defining(sA, sJ) = {1}
  /\ loaded[1][sA][sK] # loaded[2][sA][sK]
  /\ raw_data[sA][sK] = loaded[2][sA][sK]
  /\ raw_data[sA][sJ] = loaded[1][sA][sJ]

-----------------------------------------------------------------------------
(* Claims on section inheritance (specification SpecInherit)               *)

\* the values the three layers hold for section.key
LayerValues(section, key) ==
  {RawGet(CONFIG, section, key), Get2(environment.nested, section, key),
   Get2(defaults, section, key)} \ {None}

RECURSIVE ChainFrom(_, _)

\* the section, the section it inherits from, and so on for n links
ChainFrom(section, n) ==
  IF n = 0 \/ LayerValues(section, sInherit) = {} THEN <<section>>
  ELSE <<section>> \o ChainFrom(OwnValue(CONFIG, section, sInherit).s, n - 1)

Chain(section) == ChainFrom(section, Cardinality(InheritSections))

Acyclic(section) ==
  \A i, j \in 1..Len(Chain(section)) : i # j => Chain(section)[i] # Chain(section)[j]

\* the places of the chain whose section has a value of its own for key
Holders(section, key) ==
  {i \in 1..Len(Chain(section)) : LayerValues(Chain(section)[i], key) # {}}

\* the lookup of section.key gave val
NearestValue(section, key, val) ==
  IF StartsWith(key, <<"@">>)
  THEN IF LayerValues(section, key) = {}
       THEN val = None
       ELSE val \in LayerValues(section, key)
  ELSE IF Holders(section, key) = {}
       THEN val = None
       ELSE \E i \in Holders(section, key) :
              /\ \A j \in Holders(section, key) : i <= j
              /\ val \in LayerValues(Chain(section)[i], key)

\* C3: on an acyclic chain of sections a lookup (_GetValue, GetRaw) returns
\* a value of the nearest section of the chain that has one of its own in
\* raw data, environment or defaults (the section itself first), None when
\* no section has one; a key that starts with @ is looked up in the section
\* alone. Get returns the same value whenever it returns.
C3_NearestSectionWins ==
  (last.op \in {"_GetValue", "GetRaw", "Get"} /\ Acyclic(SectionOf(last.name))) =>
    /\ last.op # "Get" => last.err = ""
    /\ last.err = "" => NearestValue(SectionOf(last.name), KeyOf(last.name), last.val)

\* C3 witness: A inherits from B and B from C, only C has a value for k,
\* and the lookup of A.k returned it.
C3_Witness ==
  /\ last.op = "_GetValue"
  /\ last.name = Dotted(sA, sK)
  /\ Chain(sA) = <<sA, sB, sC>>
  /\ Holders(sA, sK) = {3}
  /\ last.err = ""
  /\ last.val = Str(sD)

-----------------------------------------------------------------------------
(* Claims on strings (specification SpecStr)                               *)

\* the last call is Get("A.k") made right after Set("A.k", input)
GetAfterSet ==
  /\ last.op = "Get"
  /\ last.name = nAk
  /\ last.prev = [op |-> "Set", name |-> nAk]

\* C5 as stated: Set(name, v) followed by Get(name) returns a value equal
\* to v, for any string v.
C5_SetGetRoundTrip ==
  GetAfterSet => (last.err = "" /\ last.val = Str(input))

RECURSIVE TokenActions(_)

\* the callbacks the lexer runs on the buffer, as long as it stays in the
\* INITIAL state
TokenActions(buffer) ==
  IF buffer = <<>> THEN {}
  ELSE {TokenAt("INITIAL", buffer).action}
       \cup TokenActions(Drop(buffer, TokenAt("INITIAL", buffer).len))

\* C6: the interpolation of EscapeString(s) yields exactly s and raises no
\* error, and the lexer runs no callback on the escaped form other than
\* Escape and AppendArg: no expansion, no literal region, no filter.
C6_EscapeThenInterpolateIsIdentity ==
  last.op = "EscapeString" =>
    /\ last.err = ""
    /\ last.val = Str(input)
    /\ TokenActions(EscapeString(input)) \subseteq {"Escape", "AppendArg"}

\* C6 witness: a string made of special characters went through escaping
\* and interpolation and came back.
C6_Witness ==
  /\ last.op = "EscapeString"
  /\ input = <<"%", "(", ")">>
  /\ last.val = Str(input)

\* what the filter makes of a text
FilterResult(filter_name, text) ==
  IF filter_name = fUpper THEN StrUpper(text) ELSE StrLower(text)

\* C10 as stated: %(%(inner|upper)|lower), with inner resolving to "MiXed",
\* evaluates to "mixed".
C10_NestedFilterResolvesInner ==
  (last.op = "Parse" /\ input = Filtering(Filtering(sInner, fUpper), fLower)) =>
    (last.err = "" /\ last.val = Str(sMixedLower))

\* C10 amended: nested regions are evaluated innermost first, and a region
\* closed by a filter hands its text to the filter as it is, without
\* resolving it: %(%(t|f1)|f2) evaluates to f2(f1(t)), so
\* %(%(inner|upper)|lower) evaluates to "inner"; with the parameter expanded
\* in a region of its own, %(%(%(inner)|f1)|f2) evaluates to f2(f1(value
\* of inner)), "mixed" for upper, lower and the value "MiXed".
C10_NestedInnermostFirst ==
  last.op = "Parse" =>
    /\ \A t \in NestedTexts : \A f1 \in NestedFilters : \A f2 \in NestedFilters :
         input = Filtering(Filtering(t, f1), f2) =>
           (last.err = "" /\ last.val = Str(FilterResult(f2, FilterResult(f1, t))))
    /\ \A f1 \in NestedFilters : \A f2 \in NestedFilters :
         input = Filtering(Filtering(Expansion(sInner), f1), f2) =>
           (last.err = "" /\ last.val = Str(FilterResult(f2, FilterResult(f1, sMiXed))))

\* C10 witness: %(%(%(inner)|upper)|lower) was evaluated and gave "mixed".
C10_Witness ==
  /\ last.op = "Parse"
  /\ input = Filtering(Filtering(Expansion(sInner), fUpper), fLower)
  /\ last.err = ""
  /\ last.val = Str(sMixedLower)

\* every } of the content follows a backslash, no backslash follows a
\* backslash (so that what a backslash escapes is not in doubt), and the
\* content does not end in a backslash (which would escape the close of the
\* region)
LiteralContent(content) ==
  /\ \A i \in 1..Len(content) :
       /\ content[i] = "}" => (i > 1 /\ content[i - 1] = "\\")
       /\ content[i] = "\\" => (i = 1 \/ content[i - 1] # "\\")
  /\ content = <<>> \/ content[Len(content)] # "\\"

RECURSIVE Unescaped(_)

\* the content with each \} turned into }
Unescaped(content) ==
  IF content = <<>> THEN <<>>
  ELSE IF Len(content) >= 2 /\ content[1] = "\\" /\ content[2] = "}"
  THEN <<"}">> \o Unescaped(Drop(content, 2))
  ELSE <<Head(content)>> \o Unescaped(Tail(content))

\* C11 as stated: a literal region %{...} whose content has no unescaped }
\* evaluates to the content verbatim, \} giving }, whatever expressions the
\* content holds.
C11_LiteralRegionVerbatim ==
  (last.op = "Literal" /\ LiteralContent(input)) =>
    (last.err = "" /\ last.val = Str(Unescaped(input)))

\* the string can open no region: it holds no % and no backslash
OpensNothing(string) == \A i \in 1..Len(string) : string[i] \notin {"%", "\\"}

\* C12 as stated: an expansion close, ")" or "|name)", met while no
\* expansion region is open makes the evaluation fail with the parse/format
\* error, never with another kind of error and never succeed.
C12_CloseWithNoOpenRegion ==
  (/\ last.op = "Parse"
   /\ OpensNothing(input)
   /\ \E i \in 1..Len(input) : input[i] = ")") =>
    last.err \in {"ParseError", "ConfigFormatError"}

\* the string holds an opener, %( or %{, and nothing that could close a
\* region or escape the opener
OpensAndNeverCloses(string) ==
  /\ \E i \in 1..(Len(string) - 1) : string[i] = "%" /\ string[i + 1] \in {"(", "{"}
  /\ \A i \in 1..Len(string) : string[i] \notin {")", "}", "\\"}

\* what a token adds to the number of open regions
Opens(token) ==
  IF token.action \in {"StartExpression", "StartExpression,PushState"} THEN 1
  ELSE IF token.action \in {"ExpandArg", "Filter", "EndLiteralExpression,PopState"}
  THEN 0 - 1 ELSE 0

\* the lexer state after the token
StateAfter(token, state) ==
  IF token.action = "StartExpression,PushState" THEN "Literal"
  ELSE IF token.action = "EndLiteralExpression,PopState" THEN "INITIAL" ELSE state

RECURSIVE OpenRegions(_, _)

\* regions opened minus regions closed by the tokens of the buffer
OpenRegions(state, buffer) ==
  IF buffer = <<>> THEN 0
  ELSE Opens(TokenAt(state, buffer))
       + OpenRegions(StateAfter(TokenAt(state, buffer), state),
                     Drop(buffer, TokenAt(state, buffer).len))

\* C13: an evaluation returns a result only if the tokens of the input close
\* as many regions as they open, so that one accumulator is left; an input
\* that opens a region and holds nothing that closes one, such as %(abc,
\* fails with the parse error.
C13_UnclosedRegionFails ==
  last.op = "Parse" =>
    /\ last.err = "" => OpenRegions("INITIAL", input) = 0
    /\ OpensAndNeverCloses(input) => last.err = "ParseError"

\* C13 witness: %(abc was evaluated and failed with the parse error.
C13_Witness ==
  /\ last.op = "Parse"
  /\ input = <<"%", "(", "a", "b", "c">>
  /\ OpenRegions("INITIAL", input) = 1
  /\ last.err = "ParseError"

\* C14 as stated: a region closed by |f1,f2) applies f1 to its content and
\* f2 to the result, so that %(aB|upper,lower) evaluates to "ab".
C14_FilterChainLeftToRight ==
  last.op = "Parse" =>
    \A t \in NestedTexts : \A f1 \in NestedFilters : \A f2 \in NestedFilters :
      input = FilterChain(t, f1, f2) =>
        (last.err = "" /\ last.val = Str(FilterResult(f2, FilterResult(f1, t))))

\* the descriptors Validate(parameter) matches
Matching(parameter) == {name \in DOMAIN type_infos : Matches(parameter, name)}

\* the value of the parameter does not pass its descriptor's Validate
Invalid(name) ==
  \/ Get(CONFIG, name, FALSE, TRUE, MaxDepth).err # ""
  \/ Validate(type_infos[name], Get(CONFIG, name, FALSE, TRUE, MaxDepth).val).err # ""

\* C15 as stated: Validate never raises, whatever the stored values are; it
\* returns a map holding each matching parameter whose value fails and no
\* parameter whose value is valid.
C15_ValidateNeverRaises ==
  last.op = "Validate" =>
    /\ last.err = ""
    /\ last.val = Dict({name \in Matching(last.name) : Invalid(name)})

\* a string that holds a literal close and nothing that could open a literal
\* region or escape the close
ClosesNoLiteral(string) ==
  /\ Contains(string, "}")
  /\ ~Contains(string, "{")
  /\ ~Contains(string, "\\")

\* C16 as stated: a literal close } met while no literal region is open makes
\* the evaluation fail with the format error; such an input never evaluates.
C16_LiteralCloseWithNoOpenFails ==
  (last.op = "Parse" /\ ClosesNoLiteral(input)) => last.err = "ConfigFormatError"

\* the six characters C17 names
ConfigSpecial == {"\\", "%", "(", ")", "{", "}"}

RECURSIVE BackslashEscaped(_)

\* the string with a backslash put before each of the six characters
BackslashEscaped(string) ==
  IF string = <<>> THEN <<>>
  ELSE (IF Head(string) \in ConfigSpecial THEN <<"\\", Head(string)>>
        ELSE <<Head(string)>>) \o BackslashEscaped(Tail(string))

\* C17 as stated: the value Set stores into raw_data has every occurrence of
\* \ % ( ) { } of the serialized value preceded by a backslash and no other
\* character changed.
C17_SetStoresSixEscaped ==
  (last.op = "Set" /\ last.err = "" /\ last.name = nAk) =>
    RawGet(CONFIG, sA, sK) = Str(BackslashEscaped(input))

\* the value lookup of section.k falls back to section b: the section has no
\* value of its own for k and its pointer, from whichever layer, names b
FallsBackTo(section, b) ==
  /\ LayerValues(section, sK) = {}
  /\ LayerValues(section, sInherit) # {}
  /\ OwnValue(CONFIG, section, sInherit) = Str(b)

\* C18 as stated: for a section and a key with no descriptor of their own,
\* when the value lookup falls back to section b through
\* @inherit_from_section (the pointer being in raw data, environment or
\* defaults), _FindTypeInfo returns the descriptor registered for b.k.
C18_DescriptorFollowsValueLookup ==
  \A section \in InheritSections : \A b \in InheritSections \ {section} :
    (/\ Dotted(section, sK) \notin DOMAIN type_infos
     /\ Dotted(b, sK) \in DOMAIN type_infos
     /\ FallsBackTo(section, b)) =>
      _FindTypeInfo(CONFIG, section, sK, MaxDepth)
        = [err |-> "", ti |-> type_infos[Dotted(b, sK)]]

\* C19 as stated: whatever goes wrong during Get(name, verify=True), an
\* unbalanced expression, an unknown filter name, a filter's own failure or
\* a value the descriptor rejects, the caller sees ConfigFormatError and no
\* other kind of error.
C19_GetVerifyRaisesOnlyConfigFormatError ==
  last.op = "GetVerify" => last.err \in {"", "ConfigFormatError"}

\* a selector whose scheme names no registered parser and whose bare path
\* cannot be read
NoParserFor(url) == url.scheme # "file" /\ url.path \notin DOMAIN Files

\* C20 as stated: LoadSecondaryConfig with a selector whose scheme matches no
\* registered parser and whose path is not readable is a no-op: it raises no
\* error and leaves raw_data unchanged.
C20_UnknownSchemeLoadIsNoOp ==
  [][\A url \in Urls :
       (last'.op = "LoadSecondaryConfig" /\ last'.name = UrlName(url)
        /\ NoParserFor(url)) =>
         (last'.err = "" /\ raw_data' = raw_data)]_vars

\* the step is an ExecuteSection(S) that returned
Executed == last'.op = "ExecuteSection" /\ last'.err = ""

\* what raw_data holds for A.k after the step is the string
StoredAfter(string) ==
  /\ sA \in DOMAIN raw_data'
  /\ sK \in DOMAIN raw_data'[sA]
  /\ raw_data'[sA][sK] = string

\* the step wrote nothing but A.k, the one parameter the dotted keys of S name
WroteOnlyTarget ==
  \A section \in DOMAIN raw_data \cup DOMAIN raw_data' :
    \A key \in KeysOf(raw_data, section) \cup KeysOf(raw_data', section) :
      <<section, key>> # <<sA, sK>> =>
        /\ key \in KeysOf(raw_data, section) \cap KeysOf(raw_data', section)
        /\ raw_data'[section][key] = raw_data[section][key]

RawReplay == raw_data[sS][KeyOf(nSAkRaw)]

SetReplay ==
  EscapeString(ToString(StringType, Get(CONFIG, nSAk, FALSE, TRUE, MaxDepth).val))

\* the string the replay of the key A.k stores when the key A.k! was replayed
\* before it: Get("S.A.k") is evaluated at the time of its own replay
SetReplayAfterRaw ==
  EscapeString(ToString(StringType,
    Get(SetRaw(CONFIG, nAk, Str(RawReplay), MaxDepth).cfg,
        nSAk, FALSE, TRUE, MaxDepth).val))

Once(order) == ExecuteSection(CONFIG, sS, order, MaxDepth)

Twice(order) == ExecuteSection(Once(order).cfg, sS, order, MaxDepth)

\* C22 as stated: LoadSecondaryConfig(url) twice in a row, or
\* ExecuteSection(name) twice in a row, leaves the raw data that one
\* application leaves, also when an executed entry refers to the parameter
\* it overrides.
C22_LoadAndExecuteIdempotent ==
  /\ \A url \in Urls :
       LoadSecondaryConfig(LoadSecondaryConfig(raw_data, url).raw, url).raw
         = LoadSecondaryConfig(raw_data, url).raw
  /\ \A order \in Orders(KeysOf(raw_data, sS)) :
       (Once(order).err = "" /\ Twice(order).err = "") =>
         Twice(order).cfg.raw_data = Once(order).cfg.raw_data

-----------------------------------------------------------------------------
(* Claims on SpecBoot                                                      *)

\* the step is a LoadConfig that returned
Booted == last'.op = "LoadConfig" /\ last'.err = ""

\* what the primary source holds
PrimaryData(config_file) ==
  IF config_file.kind = "filename" THEN RawData(config_file.url.path)
  ELSE config_file.data

\* the primary source defines the entry
Redefined(config_file, section, key) ==
  /\ section \in DOMAIN PrimaryData(config_file)
  /\ key \in DOMAIN PrimaryData(config_file)[section]

\* the string a source writes to A.k, None when it does not define it
FileWrite(data) ==
  IF sA \in DOMAIN data /\ sK \in DOMAIN data[sA] THEN Str(data[sA][sK]) ELSE None

\* the string the execution of the section writes to A.k: the section's
\* entry A.k, a plain string, None when raw has no such entry
SectionWrite(raw, section) ==
  IF section \in DOMAIN raw /\ nAk \in DOMAIN raw[section]
  THEN Str(raw[section][nAk]) ELSE None

\* the writes to A.k in the order C23 gives: primary source, secondary
\* sources, component section, execute sections
Writes(a, raw) ==
  <<FileWrite(PrimaryData(a.config_file))>>
  \o [i \in 1..Len(a.secondary_configs) |->
        FileWrite(RawData(a.secondary_configs[i].path))]
  \o (IF a.component_section = <<>> THEN <<>>
      ELSE <<SectionWrite(raw, a.component_section)>>)
  \o [i \in 1..Len(a.execute_sections) |-> SectionWrite(raw, a.execute_sections[i])]

\* the places of the steps that write A.k
Writing(a, raw) == {i \in 1..Len(Writes(a, raw)) : Writes(a, raw)[i] # None}

\* C23: LoadConfig applies the primary source, then the secondary sources
\* in list order, then the component section, then the execute sections in
\* list order: when several of these steps write A.k, raw_data is left with
\* the string of the latest of them in that order.
C23_LoadConfigStepOrder ==
  [][(Booted /\ Writing(last'.value, raw_data') # {}) =>
       \E i \in Writing(last'.value, raw_data') :
         /\ \A j \in Writing(last'.value, raw_data') : j <= i
         /\ RawGet(Config(raw_data', environment', defaults', type_infos'), sA, sK)
              = Writes(last'.value, raw_data')[i]]_vars

\* C23 witness: LoadConfig ran with primary f1, secondaries f5 then f2, the
\* component section T and the execute sections T then S, every one of
\* which writes A.k, and A.k is left with what S, the last, wrote.
C23_Witness ==
  /\ last.op = "LoadConfig" /\ last.err = ""
  /\ last.value.config_file.url = File("f1")
  /\ last.value.secondary_configs = <<File("f5"), File("f2")>>
  /\ last.value.component_section = sT
  /\ last.value.execute_sections = <<sT, sS>>
  /\ RawGet(CONFIG, sA, sK) = Str(sS)

\* C24 as stated: LoadConfig with reset=false on an existing manager keeps
\* every entry of raw_data that the primary source does not redefine.
C24_NoResetKeepsEntries ==
  [][(Booted /\ ~last'.value.reset) =>
       \A section \in DOMAIN raw_data : \A key \in DOMAIN raw_data[section] :
         ~Redefined(last'.value.config_file, section, key) =>
           (section \in DOMAIN raw_data' /\ key \in DOMAIN raw_data'[section])]_vars

-----------------------------------------------------------------------------
(* Write-back (specification SpecLoad)                                     *)

\* the two-level dict holds the entry
Held(d, section, key) == section \in DOMAIN d /\ key \in DOMAIN d[section]

\* the step is a write that reached the destination; what it persisted is
\* all the parser holds after it
Persisted ==
  /\ last'.op \in {"Write", "WriteToFD"}
  /\ last'.err = ""
  /\ last'.value.persisted

\* C25: what a write persists holds every section and every key of raw_data
\* with the value raw_data gives it, and every key the parser of the primary
\* source held that raw_data does not hold, with the value it had; no key
\* the parser held is dropped.
C25_WriteBackIsMerge ==
  [][Persisted =>
       /\ \A section \in DOMAIN raw_data :
            /\ section \in DOMAIN parser'.data
            /\ \A key \in DOMAIN raw_data[section] :
                 /\ Held(parser'.data, section, key)
                 /\ parser'.data[section][key] = raw_data[section][key]
       /\ \A section \in DOMAIN parser.data : \A key \in DOMAIN parser.data[section] :
            /\ Held(parser'.data, section, key)
            /\ ~Held(raw_data, section, key) =>
                 parser'.data[section][key] = parser.data[section][key]]_vars

\* C25 witness: a write has persisted A.k with the value of raw_data, which
\* differs from the one the primary source had, next to A.j, which only the
\* primary source had.
C25_Witness ==
  /\ last.op = "Write" /\ last.err = "" /\ last.value.persisted
  /\ Held(raw_data, sA, sK) /\ ~Held(raw_data, sA, sJ)
  /\ Held(parser.data, sA, sJ)
  /\ parser.data[sA][sK] = raw_data[sA][sK]
  /\ raw_data[sA][sK] # Files["f1"][sA][sK]
  /\ parser.data[sA][sJ] = Files["f1"][sA][sJ]

-----------------------------------------------------------------------------
(* Missing parameters and cyclic inheritance                               *)

\* B.k has no value: none under its full name in the environment, none in
\* raw data, environment[B] or defaults, and B inherits from no section
MissingBk ==
  /\ nBk \notin DOMAIN environment.flat
  /\ LayerValues(sB, sK) = {}
  /\ LayerValues(sB, sInherit) = {}

\* the last call is Get("A.k") and what it read is the raw string %(B.k)
GotReferenceToBk ==
  /\ last.op = "Get" /\ last.name = nAk
  /\ nAk \notin DOMAIN environment.flat
  /\ RawGet(CONFIG, sA, sK) = Str(vRefBk)

\* C26: the reference %(B.k) to a parameter with no value in any layer and
\* no inherited value evaluates to the empty string and raises no error.
C26_MissingParameterIsEmpty ==
  (GotReferenceToBk /\ MissingBk) => (last.err = "" /\ last.val = Str(<<>>))

\* C26 witness: Get("A.k") has read %(B.k) while B.k has no value, A.k
\* having a descriptor; it returned the empty string.
C26_Witness ==
  /\ GotReferenceToBk /\ MissingBk
  /\ nAk \in DOMAIN type_infos
  /\ last.err = "" /\ last.val = Str(<<>>)

\* the inheritance pointers lead from the section back to a section already
\* passed, and no section on the way has a value for k
CyclicAndUndefined(section) == ~Acyclic(section) /\ Holders(section, sK) = {}

\* C27 as stated: when the pointers form a cycle (a section that inherits
\* from itself included) the lookup of a key no section of the cycle defines
\* never returns, for the value (_GetValue) and for the descriptor
\* (_FindTypeInfo) alike, and on every acyclic chain both return.
C27_CyclicLookupNeverReturns ==
  /\ (last.op = "_GetValue" /\ KeyOf(last.name) = sK) =>
       /\ CyclicAndUndefined(SectionOf(last.name)) => last.err = "RecursionLimit"
       /\ Acyclic(SectionOf(last.name)) => last.err = ""
  /\ \A section \in InheritSections :
       /\ CyclicAndUndefined(section) =>
            _FindTypeInfo(CONFIG, section, sK, MaxDepth).err = "RecursionLimit"
       /\ Acyclic(section) => _FindTypeInfo(CONFIG, section, sK, MaxDepth).err = ""

=============================================================================
